---- MODULE Spec2Model ----
(***************************************************************************)
(* Graph rewriting core of RoboGrammar (core/src/graph_rewrite.cpp):       *)
(* createRuleFromGraph, findMatches and applyRule.                         *)
(*                                                                         *)
(* Indices are 0-based as in the source; At(s, i) reads position i of a    *)
(* sequence.  A graph is [nodes, edges]: nodes is the sequence of node     *)
(* labels (attrs_.label_), edges the sequence of [head, tail, label].      *)
(***************************************************************************)
EXTENDS Integers, Sequences, FiniteSets, TLC

VARIABLES graph, target, pattern, rule, error, partial_matches, matches,
          lhs_to_target, result, pc

vars == <<graph, target, pattern, rule, error, partial_matches, matches,
          lhs_to_target, result, pc>>

----------------------------------------------------------------------------
(* Bounds of the explored inputs *)

\* createRuleFromGraph alone (CompileSpec): graphs of many nodes and few edges,
\* and graphs of one node and many edges
MaxGraphNodes == 2
MaxGraphEdges == 1
MaxManyEdges == 4
\* findMatches alone: nodes and edges of pattern and target together
\* (MatchSpec, and MatchFairSpec for termination)
MaxMatchSize == 6
MaxFairSize == 5
\* the whole chain compile, match, apply (Spec)
MaxRuleNodes == 2
MaxRuleEdges == 2
MaxHostNodes == 2
MaxHostEdges == 2

NodeLabels == {"", "a"}
EdgeLabels == {"", "e"}
ManyEdgeLabels == {"", "e", "f"}

----------------------------------------------------------------------------
(* Helpers *)

\* the value -1 stored in an index table for "no entry"
Absent == -1

At(s, i) == s[i + 1]

Put(s, i, v) == [s EXCEPT ![i + 1] = v]

Fill(n, v) == [k \in 1..n |-> v]

Indices(s) == 0..(Len(s) - 1)

Range(s) == {s[k] : k \in 1..Len(s)}

Perms(S) == {p \in [1..Cardinality(S) -> S] : \A a, b \in DOMAIN p : p[a] = p[b] => a = b}

EmptyGraph == [nodes |-> <<>>, edges |-> <<>>]

EmptyMapping == [node_mapping |-> <<>>, edge_mapping |-> <<>>]

NoRule == [lhs |-> EmptyGraph, rhs |-> EmptyGraph, common |-> EmptyGraph,
           common_to_lhs |-> EmptyMapping, common_to_rhs |-> EmptyMapping]

NoGraph == [nodes |-> <<>>, edges |-> <<>>, subgraphs |-> <<>>]

----------------------------------------------------------------------------
(* createRuleFromGraph *)

\* std::find_if over graph.subgraphs_: the first subgraph of that name, 0 if none
FindSubgraph(g, name) ==
  IF \E k \in 1..Len(g.subgraphs) : g.subgraphs[k].name = name
  THEN CHOOSE k \in 1..Len(g.subgraphs) :
         /\ g.subgraphs[k].name = name
         /\ \A h \in 1..(k - 1) : g.subgraphs[h].name # name
  ELSE 0

InitCompileState(g) ==
  [lhs |-> EmptyGraph, rhs |-> EmptyGraph, common |-> EmptyGraph,
   common_to_lhs |-> EmptyMapping, common_to_rhs |-> EmptyMapping,
   graph_to_lhs_node |-> Fill(Len(g.nodes), Absent),
   graph_to_rhs_node |-> Fill(Len(g.nodes), Absent),
   graph_to_common_node |-> Fill(Len(g.nodes), Absent),
   lhs_label_to_edge |-> <<>>,
   rhs_label_to_edge |-> <<>>,
   error |-> "none"]

\* the node loop: copy node i to the sides it belongs to, throw when in neither
RECURSIVE CopyNodes(_, _, _, _, _)
CopyNodes(g, lhs_subgraph, rhs_subgraph, i, st) ==
  IF i >= Len(g.nodes) THEN st
  ELSE
    LET node == At(g.nodes, i)
        node_in_lhs == i \in lhs_subgraph.nodes
        node_in_rhs == i \in rhs_subgraph.nodes
        s1 == IF node_in_lhs
              THEN [st EXCEPT !.lhs.nodes = Append(@, node),
                              !.graph_to_lhs_node = Put(@, i, Len(st.lhs.nodes))]
              ELSE st
        s2 == IF node_in_rhs
              THEN [s1 EXCEPT !.rhs.nodes = Append(@, node),
                              !.graph_to_rhs_node = Put(@, i, Len(s1.rhs.nodes))]
              ELSE s1
        s3 == IF node_in_lhs /\ node_in_rhs
              THEN [s2 EXCEPT !.common.nodes = Append(@, node),
                              !.common_to_lhs.node_mapping = Append(@, Len(s2.lhs.nodes) - 1),
                              !.common_to_rhs.node_mapping = Append(@, Len(s2.rhs.nodes) - 1),
                              !.graph_to_common_node = Put(@, i, Len(s2.common.nodes))]
              ELSE s2
    IN IF ~node_in_lhs /\ ~node_in_rhs
       THEN [s3 EXCEPT !.error = "node in neither side"]
       ELSE CopyNodes(g, lhs_subgraph, rhs_subgraph, i + 1, s3)

\* a translated endpoint: table[index]
Translate(table, index) == At(table, index)

\* unordered_map::emplace: the entries are <<label, edge>> pairs in insertion order
HasLabel(map, label) == \E k \in 1..Len(map) : map[k][1] = label

EdgeOfLabel(map, label) == (CHOOSE k \in 1..Len(map) : map[k][1] = label)

LabelClash_overwrite(map, label) == FALSE

\* the label test of the edge loop: a non-empty label already in the map throws
LabelClash(map, label) == label # "" /\ HasLabel(map, label)

Emplace(map, label, m) ==
  IF label # "" /\ ~HasLabel(map, label) THEN Append(map, <<label, m>>) ELSE map

\* the edge loop: copy edge m to its side, keep the label maps, throw on a clash,
\* on an edge in both sides and on an edge in neither
RECURSIVE CopyEdges(_, _, _, _, _)
CopyEdges(g, lhs_subgraph, rhs_subgraph, m, st) ==
  IF m >= Len(g.edges) THEN st
  ELSE
    LET edge == At(g.edges, m)
        edge_in_lhs == m \in lhs_subgraph.edges
        edge_in_rhs == m \in rhs_subgraph.edges
        label == edge.label
        lhs_edge == [head |-> Translate(st.graph_to_lhs_node, edge.head),
                     tail |-> Translate(st.graph_to_lhs_node, edge.tail),
                     label |-> label]
        rhs_edge == [head |-> Translate(st.graph_to_rhs_node, edge.head),
                     tail |-> Translate(st.graph_to_rhs_node, edge.tail),
                     label |-> label]
        lhs_clash == edge_in_lhs /\ LabelClash(st.lhs_label_to_edge, label)
        s1 == IF edge_in_lhs
              THEN [st EXCEPT !.lhs.edges = Append(@, lhs_edge),
                              !.lhs_label_to_edge = Emplace(@, label, Len(st.lhs.edges))]
              ELSE st
        rhs_clash == edge_in_rhs /\ LabelClash(s1.rhs_label_to_edge, label)
        s2 == IF edge_in_rhs
              THEN [s1 EXCEPT !.rhs.edges = Append(@, rhs_edge),
                              !.rhs_label_to_edge = Emplace(@, label, Len(s1.rhs.edges))]
              ELSE s1
    IN IF lhs_clash THEN [s1 EXCEPT !.error = "label used twice in LHS"]
       ELSE IF rhs_clash THEN [s2 EXCEPT !.error = "label used twice in RHS"]
       ELSE IF edge_in_lhs /\ edge_in_rhs THEN [s2 EXCEPT !.error = "edge in both sides"]
       ELSE IF ~edge_in_lhs /\ ~edge_in_rhs THEN [s2 EXCEPT !.error = "edge in neither side"]
       ELSE CopyEdges(g, lhs_subgraph, rhs_subgraph, m + 1, s2)

\* the last loop: one common edge per label of the LHS map that the RHS map has
\* too, visiting the LHS map in the order `order` (a sequence of positions of it)
RECURSIVE AddCommonEdges(_, _, _)
AddCommonEdges(st, order, k) ==
  IF k > Len(order) THEN st
  ELSE
    LET elem_lhs == st.lhs_label_to_edge[order[k]]
        label == elem_lhs[1]
        m_lhs == elem_lhs[2]
    IN IF HasLabel(st.rhs_label_to_edge, label)
       THEN LET m_rhs == st.rhs_label_to_edge[EdgeOfLabel(st.rhs_label_to_edge, label)][2]
            IN AddCommonEdges(
                 [st EXCEPT !.common.edges = Append(@, [head |-> 0, tail |-> 0, label |-> label]),
                            !.common_to_lhs.edge_mapping = Append(@, <<m_lhs>>),
                            !.common_to_rhs.edge_mapping = Append(@, <<m_rhs>>)],
                 order, k + 1)
       ELSE AddCommonEdges(st, order, k + 1)

\* the node and edge loops, up to the first throw
CompileLoops(g) ==
  LET l == FindSubgraph(g, "L")
      r == FindSubgraph(g, "R")
  IN IF l = 0 \/ r = 0
     THEN [InitCompileState(g) EXCEPT !.error = "missing subgraph"]
     ELSE LET sn == CopyNodes(g, g.subgraphs[l], g.subgraphs[r], 0, InitCompileState(g))
          IN IF sn.error # "none" THEN sn
             ELSE CopyEdges(g, g.subgraphs[l], g.subgraphs[r], 0, sn)

\* the iteration orders an unordered_map of these labels may have
MapOrders(st) == Perms(1..Len(st.lhs_label_to_edge))

RuleOf(st) ==
  [lhs |-> st.lhs, rhs |-> st.rhs, common |-> st.common,
   common_to_lhs |-> st.common_to_lhs, common_to_rhs |-> st.common_to_rhs]

----------------------------------------------------------------------------
(* findMatches *)

Back(s) == s[Len(s)]

Front(s) == SubSeq(s, 1, Len(s) - 1)

\* GraphMapping{{0}}: the first partial match to try
FirstPartialMatch == [node_mapping |-> <<0>>, edge_mapping |-> <<>>]

\* ++j on the speculative last entry of a partial match
Advance(pm) == [pm EXCEPT !.node_mapping[Len(pm.node_mapping)] = @ + 1]

\* ++j after a candidate failed the label or the edge test
NextCandidate_stuck(pm) == pm

NextCandidate(pm) == Advance(pm)

\* j >= target.nodes_.size()
Exhausted(t, pm) == Back(pm.node_mapping) >= Len(t.nodes)

LabelMismatch_strict(p, t, i, j) == At(p.nodes, i) # At(t.nodes, j)

\* pattern node i has a label and target node j has another
LabelMismatch(p, t, i, j) ==
  LET pattern_node_label == At(p.nodes, i)
      target_node_label == At(t.nodes, j)
  IN pattern_node_label # "" /\ pattern_node_label # target_node_label

\* std::find_if over target.edges_ for an edge tail -> head
HasTargetEdge(t, j_head, j_tail) ==
  \E n \in Indices(t.edges) : At(t.edges, n).head = j_head /\ At(t.edges, n).tail = j_tail

\* the loop over pattern.edges_ that sets edge_fail: some pattern edge incident on
\* i whose other end is already mapped has no target edge
EdgeFail(p, t, pm, i, j) ==
  \E m \in Indices(p.edges) :
    LET pattern_edge == At(p.edges, m)
    IN IF pattern_edge.head = i /\ pattern_edge.tail <= i
       THEN ~HasTargetEdge(t, j, At(pm.node_mapping, pattern_edge.tail))
       ELSE IF pattern_edge.tail = i /\ pattern_edge.head <= i
            THEN ~HasTargetEdge(t, At(pm.node_mapping, pattern_edge.head), j)
            ELSE FALSE

RECURSIVE TargetEdges_first(_, _, _, _)
TargetEdges_first(t, j_head, j_tail, n) ==
  IF n >= Len(t.edges) THEN <<>>
  ELSE IF At(t.edges, n).head = j_head /\ At(t.edges, n).tail = j_tail
       THEN <<n>>
       ELSE TargetEdges_first(t, j_head, j_tail, n + 1)

\* the inner loop over n: the target edges j_tail -> j_head, in index order
RECURSIVE TargetEdges(_, _, _, _)
TargetEdges(t, j_head, j_tail, n) ==
  IF n >= Len(t.edges) THEN <<>>
  ELSE LET target_edge == At(t.edges, n)
           rest == TargetEdges(t, j_head, j_tail, n + 1)
       IN IF target_edge.head = j_head /\ target_edge.tail = j_tail
          THEN <<n>> \o rest
          ELSE rest

\* the completed match: pm with one list of target edges per pattern edge
NewMatch(p, t, pm) ==
  [node_mapping |-> pm.node_mapping,
   edge_mapping |->
     [k \in 1..Len(p.edges) |->
        TargetEdges(t, At(pm.node_mapping, p.edges[k].head),
                       At(pm.node_mapping, p.edges[k].tail), 0)]]

PushMatch_front(ms, new_match) == <<new_match>> \o ms

\* matches.push_back(pm)
PushMatch(ms, new_match) == Append(ms, new_match)

\* the stack after popping an exhausted frame: the parent moves to its next candidate
PopFrame(stack) ==
  LET popped == Front(stack)
  IN IF popped # <<>>
     THEN [popped EXCEPT ![Len(popped)] = Advance(@)]
     ELSE popped

\* the child frame: a copy of pm with the speculative entry 0 for the next node
ChildFrame(pm) == [pm EXCEPT !.node_mapping = Append(@, 0)]

SetTop(stack, pm) == [stack EXCEPT ![Len(stack)] = pm]

\* which branch one iteration of the while loop takes
StepKind(p, t, stack) ==
  LET pm == Back(stack)
      i == Len(pm.node_mapping) - 1
      j == Back(pm.node_mapping)
  IN IF Exhausted(t, pm) THEN "backtrack"
     ELSE IF LabelMismatch(p, t, i, j) THEN "label"
     ELSE IF EdgeFail(p, t, pm, i, j) THEN "edge"
     ELSE IF Len(pm.node_mapping) = Len(p.nodes) THEN "record"
     ELSE "recurse"

\* one iteration of the while loop on [stack, ms]
MatchStep(p, t, st) ==
  LET pm == Back(st.stack)
      kind == StepKind(p, t, st.stack)
  IN CASE kind = "backtrack" -> [st EXCEPT !.stack = PopFrame(st.stack)]
       [] kind = "label" -> [st EXCEPT !.stack = SetTop(st.stack, NextCandidate(pm))]
       [] kind = "edge" -> [st EXCEPT !.stack = SetTop(st.stack, NextCandidate(pm))]
       [] kind = "record" ->
            [stack |-> SetTop(st.stack, Advance(pm)),
             ms |-> PushMatch(st.ms, NewMatch(p, t, pm))]
       [] kind = "recurse" -> [st EXCEPT !.stack = Append(st.stack, ChildFrame(pm))]

\* the whole call: run the loop until the stack is empty
RECURSIVE RunMatcher(_, _, _)
RunMatcher(p, t, st) ==
  IF st.stack = <<>> THEN st.ms ELSE RunMatcher(p, t, MatchStep(p, t, st))

findMatches(p, t) == RunMatcher(p, t, [stack |-> <<FirstPartialMatch>>, ms |-> <<>>])

----------------------------------------------------------------------------
(* applyRule *)

\* the target edges listed anywhere in a mapping's edge_mapping
Flatten(edge_mapping) == UNION {Range(edge_mapping[k]) : k \in 1..Len(edge_mapping)}

InitApplyState(r, t) ==
  [nodes |-> <<>>, edges |-> <<>>,
   target_to_result_node |-> Fill(Len(t.nodes), Absent),
   rhs_to_result_node |-> Fill(Len(r.rhs.nodes), Absent)]

\* copy the target nodes that no LHS node is mapped to
RECURSIVE CopyContextNodes(_, _, _, _)
CopyContextNodes(t, target_nodes_in_lhs, i, st) ==
  IF i >= Len(t.nodes) THEN st
  ELSE CopyContextNodes(t, target_nodes_in_lhs, i + 1,
         IF i \notin target_nodes_in_lhs
         THEN [st EXCEPT !.nodes = Append(@, At(t.nodes, i)),
                         !.target_to_result_node = Put(@, i, Len(st.nodes))]
         ELSE st)

\* copy the target node of every common node
RECURSIVE CopyCommonNodes(_, _, _, _, _)
CopyCommonNodes(r, t, l2t, i, st) ==
  IF i >= Len(r.common.nodes) THEN st
  ELSE LET lhs_node == At(r.common_to_lhs.node_mapping, i)
           target_node == At(l2t.node_mapping, lhs_node)
       IN CopyCommonNodes(r, t, l2t, i + 1,
            [st EXCEPT !.nodes = Append(@, At(t.nodes, target_node)),
                       !.target_to_result_node = Put(@, target_node, Len(st.nodes))])

\* add the RHS nodes that are not the image of a common node
RECURSIVE AddRhsNodes(_, _, _, _)
AddRhsNodes(r, rhs_nodes_in_common, i, st) ==
  IF i >= Len(r.rhs.nodes) THEN st
  ELSE AddRhsNodes(r, rhs_nodes_in_common, i + 1,
         IF i \notin rhs_nodes_in_common
         THEN [st EXCEPT !.nodes = Append(@, At(r.rhs.nodes, i)),
                         !.rhs_to_result_node = Put(@, i, Len(st.nodes))]
         ELSE st)

\* an edge with both ends sent through an index table
Reroute(edge, table) ==
  [edge EXCEPT !.head = Translate(table, edge.head), !.tail = Translate(table, edge.tail)]

\* copy the target edges that no LHS edge is mapped to
RECURSIVE CopyContextEdges(_, _, _, _)
CopyContextEdges(t, target_edges_in_lhs, m, st) ==
  IF m >= Len(t.edges) THEN st
  ELSE CopyContextEdges(t, target_edges_in_lhs, m + 1,
         IF m \notin target_edges_in_lhs
         THEN [st EXCEPT !.edges = Append(@, Reroute(At(t.edges, m), st.target_to_result_node))]
         ELSE st)

\* the target edges of one LHS edge, rerouted
CopiedEdges(t, target_edges, table) ==
  [k \in 1..Len(target_edges) |-> Reroute(At(t.edges, target_edges[k]), table)]

\* copy the target edges of the LHS edge of every common edge
RECURSIVE CopyCommonEdges(_, _, _, _, _)
CopyCommonEdges(r, t, l2t, m, st) ==
  IF m >= Len(r.common.edges) THEN st
  ELSE LET lhs_edge == At(r.common_to_lhs.edge_mapping, m)[1]
           target_edges == At(l2t.edge_mapping, lhs_edge)
       IN CopyCommonEdges(r, t, l2t, m + 1,
            [st EXCEPT !.edges = @ \o CopiedEdges(t, target_edges, st.target_to_result_node)])

\* add the RHS edges that are not the image of a common edge
RECURSIVE AddRhsEdges(_, _, _, _)
AddRhsEdges(r, rhs_edges_in_common, m, st) ==
  IF m >= Len(r.rhs.edges) THEN st
  ELSE AddRhsEdges(r, rhs_edges_in_common, m + 1,
         IF m \notin rhs_edges_in_common
         THEN [st EXCEPT !.edges = Append(@, Reroute(At(r.rhs.edges, m), st.rhs_to_result_node))]
         ELSE st)

\* the six loops in order
ApplyLoops(r, t, l2t) ==
  LET n1 == CopyContextNodes(t, Range(l2t.node_mapping), 0, InitApplyState(r, t))
      n2 == CopyCommonNodes(r, t, l2t, 0, n1)
      n3 == AddRhsNodes(r, Range(r.common_to_rhs.node_mapping), 0, n2)
      e1 == CopyContextEdges(t, Flatten(l2t.edge_mapping), 0, n3)
      e2 == CopyCommonEdges(r, t, l2t, 0, e1)
  IN AddRhsEdges(r, Flatten(r.common_to_rhs.edge_mapping), 0, e2)

applyRule(r, t, l2t) ==
  LET st == ApplyLoops(r, t, l2t) IN [nodes |-> st.nodes, edges |-> st.edges]

----------------------------------------------------------------------------
(* The input graphs *)

EdgesOver(n, labels) == [head : 0..(n - 1), tail : 0..(n - 1), label : labels]

\* the graphs of exactly n nodes and e edges
GraphsOfSize(n, e, nodeLabels, edgeLabels) ==
  {[nodes |-> ns, edges |-> es] :
     ns \in [1..n -> nodeLabels], es \in [1..e -> EdgesOver(n, edgeLabels)]}

\* pattern is a graph with a node, target any graph, of at most `size` nodes and
\* edges together
MatchInputs(size) ==
  \E pn \in 1..size, pe \in 0..size, tn \in 0..size, te \in 0..size :
    /\ pn + pe + tn + te <= size
    /\ pattern \in GraphsOfSize(pn, pe, NodeLabels, {""})
    /\ target \in GraphsOfSize(tn, te, NodeLabels, {""})

----------------------------------------------------------------------------
(* findMatches, one loop iteration per step (MatchSpec) *)

\* the state at the head of the while loop, first time
EnterLoop ==
  /\ graph = NoGraph
  /\ rule = NoRule
  /\ error = "none"
  /\ partial_matches = <<FirstPartialMatch>>
  /\ matches = <<>>
  /\ lhs_to_target = EmptyMapping
  /\ result = EmptyGraph
  /\ pc = "match"

InitMatch == MatchInputs(MaxMatchSize) /\ EnterLoop

InitMatchFair == MatchInputs(MaxFairSize) /\ EnterLoop

Iterate(kind) ==
  /\ pc = "match"
  /\ partial_matches # <<>>
  /\ StepKind(pattern, target, partial_matches) = kind
  /\ LET st == MatchStep(pattern, target, [stack |-> partial_matches, ms |-> matches])
     IN /\ partial_matches' = st.stack
        /\ matches' = st.ms
  /\ UNCHANGED <<graph, target, pattern, rule, error, lhs_to_target, result, pc>>

Backtrack == Iterate("backtrack")

LabelFailStep == Iterate("label")

EdgeFailStep == Iterate("edge")

RecordMatch == Iterate("record")

Recurse == Iterate("recurse")

ReturnMatches ==
  /\ pc = "match"
  /\ partial_matches = <<>>
  /\ pc' = "matched"
  /\ UNCHANGED <<graph, target, pattern, rule, error, partial_matches, matches,
                 lhs_to_target, result>>

NextMatch ==
  \/ Backtrack
  \/ LabelFailStep
  \/ EdgeFailStep
  \/ RecordMatch
  \/ Recurse
  \/ ReturnMatches

MatchSpec == InitMatch /\ [][NextMatch]_vars

\* the loop runs on: nothing suspends or blocks an iteration
MatchFairSpec == InitMatchFair /\ [][NextMatch]_vars /\ WF_vars(NextMatch)

----------------------------------------------------------------------------
(* Properties of findMatches *)

\* the node assignments of the pattern into the target that meet the label
\* constraint and the edge constraint
LabelOk(p, t, phi) ==
  \A a \in Indices(p.nodes) :
    At(p.nodes, a) # "" => At(p.nodes, a) = At(t.nodes, At(phi, a))

EdgeOk(p, t, phi) ==
  \A m \in Indices(p.edges) :
    \E n \in Indices(t.edges) :
      /\ At(t.edges, n).head = At(phi, At(p.edges, m).head)
      /\ At(t.edges, n).tail = At(phi, At(p.edges, m).tail)

ValidAssignments(p, t) ==
  {phi \in [1..Len(p.nodes) -> Indices(t.nodes)] : LabelOk(p, t, phi) /\ EdgeOk(p, t, phi)}

Injective(s) == \A a, b \in 1..Len(s) : s[a] = s[b] => a = b

\* C2 (match completeness): when findMatches has returned, every node assignment
\* of the pattern into the target, injective or not, that meets the label and the
\* edge constraint is the node_mapping of exactly one returned match, and no
\* other node_mapping is returned.
C2_MatchCompleteness ==
  pc = "matched" =>
    /\ \A phi \in ValidAssignments(pattern, target) :
         Cardinality({k \in 1..Len(matches) : matches[k].node_mapping = phi}) = 1
    /\ \A k \in 1..Len(matches) :
         matches[k].node_mapping \in ValidAssignments(pattern, target)

\* a run that returned a match that is not injective, and rejected other
\* assignments, for a pattern with an edge and a labelled node
C2_Witness ==
  /\ pc = "matched"
  /\ \E k \in 1..Len(matches) : ~Injective(matches[k].node_mapping)
  /\ Len(pattern.edges) >= 1
  /\ \E a \in 1..Len(pattern.nodes) : pattern.nodes[a] # ""
  /\ Cardinality(ValidAssignments(pattern, target)) < Len(target.nodes) * Len(target.nodes)

\* the target edges that run phi(tail) -> phi(head) for pattern edge m
ParallelEdges(p, t, phi, m) ==
  {n \in Indices(t.edges) :
     /\ At(t.edges, n).head = At(phi, At(p.edges, m).head)
     /\ At(t.edges, n).tail = At(phi, At(p.edges, m).tail)}

StrictlyIncreasing(s) == \A a, b \in 1..Len(s) : a < b => s[a] < s[b]

\* C3 (match soundness with multiplicity): in every recorded match, the entry of
\* edge_mapping for each pattern edge a -> b is non-empty and lists exactly the
\* target edges phi(a) -> phi(b), same direction, in increasing index order.
C3_MatchSoundness ==
  \A k \in 1..Len(matches) :
    /\ Len(matches[k].edge_mapping) = Len(pattern.edges)
    /\ \A m \in Indices(pattern.edges) :
         LET listed == At(matches[k].edge_mapping, m)
         IN /\ listed # <<>>
            /\ StrictlyIncreasing(listed)
            /\ Range(listed) = ParallelEdges(pattern, target, matches[k].node_mapping, m)

\* a match whose pattern edge maps to two parallel target edges of a target with
\* two nodes
C3_Witness ==
  /\ pc = "matched"
  /\ Len(target.nodes) = 2
  /\ \E k \in 1..Len(matches) :
       \E m \in 1..Len(pattern.edges) : matches[k].edge_mapping[m] = <<0, 1>>

\* lexicographic order of node mappings of equal length, index 0 most significant
LexLess(x, y) ==
  \E d \in 1..Len(x) : x[d] < y[d] /\ \A c \in 1..(d - 1) : x[c] = y[c]

\* C8 (result ordering): the stack holds frames of node_mapping lengths 1, 2, ...,
\* d with d <= |P.nodes|, each frame without its speculative last entry equals the
\* frame below it, and the recorded matches are in strictly increasing
\* lexicographic order of node_mapping.
C8_ResultOrdering ==
  /\ Len(partial_matches) <= Len(pattern.nodes)
  /\ \A k \in 1..Len(partial_matches) : Len(partial_matches[k].node_mapping) = k
  /\ \A k \in 2..Len(partial_matches) :
       Front(partial_matches[k].node_mapping) = partial_matches[k - 1].node_mapping
  /\ \A a, b \in 1..Len(matches) :
       a < b => LexLess(matches[a].node_mapping, matches[b].node_mapping)

\* the search is two frames deep, past candidate 0 of both nodes, with two matches
\* already recorded
C8_Witness ==
  /\ pc = "match"
  /\ Len(partial_matches) = 2
  /\ partial_matches[1].node_mapping[1] >= 1
  /\ partial_matches[2].node_mapping[2] >= 1
  /\ Len(matches) >= 2

\* a frame that stays on the stack with the same entries below its speculative
\* one only moves that entry up
EntriesOnlyIncrease ==
  \A k \in 1..Len(partial_matches) :
    (/\ k <= Len(partial_matches')
     /\ Front(partial_matches'[k].node_mapping) = Front(partial_matches[k].node_mapping))
      => Back(partial_matches'[k].node_mapping) >= Back(partial_matches[k].node_mapping)

\* only the top frame can stand at |T.nodes|, where the next iteration pops it
FramesBounded ==
  /\ Len(partial_matches) <= Len(pattern.nodes)
  /\ \A k \in 1..Len(partial_matches) :
       /\ Back(partial_matches[k].node_mapping) <= Len(target.nodes)
       /\ k < Len(partial_matches) =>
            Back(partial_matches[k].node_mapping) < Len(target.nodes)

\* C9 (termination): the loop of findMatches empties its stack and returns, for
\* every pattern with a node and every target, the empty one included; meanwhile
\* a frame's speculative entry only increases and never passes |T.nodes|, and the
\* stack is never deeper than |P.nodes|.
C9_Termination ==
  /\ <>(pc = "matched" /\ partial_matches = <<>>)
  /\ []FramesBounded
  /\ [][EntriesOnlyIncrease]_vars

\* the call returned on a target without nodes
C9_WitnessEmptyTarget ==
  /\ pc = "matched"
  /\ Len(target.nodes) = 0
  /\ matches = <<>>

\* the call returned after trying every pair of candidates
C9_Witness ==
  /\ pc = "matched"
  /\ Len(target.nodes) = 2
  /\ Len(pattern.nodes) = 2
  /\ Len(matches) = 4

----------------------------------------------------------------------------
(* Annotated graphs: the inputs of createRuleFromGraph *)

Sides == SUBSET {"L", "R"}

SubgraphOf(name, nodeSides, edgeSides) ==
  [name |-> name,
   nodes |-> {i \in Indices(nodeSides) : name \in At(nodeSides, i)},
   edges |-> {m \in Indices(edgeSides) : name \in At(edgeSides, m)}]

\* a graph with its subgraph list: the subgraphs named in `present`, "L" first
Annotated(ns, es, nodeSides, edgeSides, present) ==
  [nodes |-> ns, edges |-> es,
   subgraphs |->
     (IF "L" \in present THEN <<SubgraphOf("L", nodeSides, edgeSides)>> ELSE <<>>)
       \o (IF "R" \in present THEN <<SubgraphOf("R", nodeSides, edgeSides)>> ELSE <<>>)]

\* graph is some annotated graph of n nodes and e edges over these choices
GraphIsAnnotated(n, e, nodeLabels, edgeLabels, nodeSideSet, edgeSideSet, presents) ==
  \E ns \in [1..n -> nodeLabels], es \in [1..e -> EdgesOver(n, edgeLabels)],
     nodeSides \in [1..n -> nodeSideSet], edgeSides \in [1..e -> edgeSideSet],
     present \in presents :
    graph = Annotated(ns, es, nodeSides, edgeSides, present)

\* both subgraphs there and any annotation of the nodes and edges, the failing
\* ones included
AnyAnnotatedGraph ==
  \E n \in 0..MaxGraphNodes, e \in 0..MaxGraphEdges :
    GraphIsAnnotated(n, e, {"a"}, EdgeLabels, Sides, Sides, {{"L", "R"}})

\* a subgraph "L" or "R" missing, every node and edge in the subgraphs there are
MissingSubgraphGraph ==
  \E n \in 0..MaxGraphNodes, e \in 0..MaxGraphEdges :
    \E present \in {{}, {"L"}, {"R"}} :
      GraphIsAnnotated(n, e, {"a"}, EdgeLabels, {present}, {present}, {present})

\* one node on both sides and up to MaxManyEdges edges, annotated in any way
ManyEdgesGraph ==
  \E e \in 0..MaxManyEdges :
    GraphIsAnnotated(1, e, {"a"}, ManyEdgeLabels, {{"L", "R"}}, Sides, {{"L", "R"}})

----------------------------------------------------------------------------
(* createRuleFromGraph as one step (CompileSpec) *)

InitCompile ==
  /\ AnyAnnotatedGraph \/ MissingSubgraphGraph \/ ManyEdgesGraph
  /\ target = EmptyGraph
  /\ pattern = EmptyGraph
  /\ rule = NoRule
  /\ error = "none"
  /\ partial_matches = <<>>
  /\ matches = <<>>
  /\ lhs_to_target = EmptyMapping
  /\ result = EmptyGraph
  /\ pc = "compile"

createRuleFromGraph ==
  /\ pc = "compile"
  /\ LET st == CompileLoops(graph)
     IN IF st.error # "none"
        THEN /\ rule' = NoRule
             /\ error' = st.error
             /\ pc' = "error"
        ELSE \E order \in MapOrders(st) :
               /\ rule' = RuleOf(AddCommonEdges(st, order, 1))
               /\ error' = "none"
               /\ pc' = "compiled"
  /\ UNCHANGED <<graph, target, pattern, partial_matches, matches, lhs_to_target, result>>

NextCompile == createRuleFromGraph

CompileSpec == InitCompile /\ [][NextCompile]_vars

----------------------------------------------------------------------------
(* Properties of createRuleFromGraph *)

Named(g, name) == \E k \in 1..Len(g.subgraphs) : g.subgraphs[k].name = name

Side(g, name) == g.subgraphs[CHOOSE k \in 1..Len(g.subgraphs) : g.subgraphs[k].name = name]

LabelTwiceOn(g, name) ==
  \E m1, m2 \in Side(g, name).edges :
    m1 # m2 /\ At(g.edges, m1).label # "" /\ At(g.edges, m1).label = At(g.edges, m2).label

\* the failure conditions of the rule compiler
StructuralFault(g) ==
  \/ ~Named(g, "L")
  \/ ~Named(g, "R")
  \/ /\ Named(g, "L")
     /\ Named(g, "R")
     /\ \/ \E i \in Indices(g.nodes) : i \notin Side(g, "L").nodes \cup Side(g, "R").nodes
        \/ \E m \in Indices(g.edges) : m \notin Side(g, "L").edges \cup Side(g, "R").edges
        \/ \E m \in Indices(g.edges) : m \in Side(g, "L").edges \cap Side(g, "R").edges
        \/ LabelTwiceOn(g, "L")
        \/ LabelTwiceOn(g, "R")

UniqueLabels(edges) ==
  \A a, b \in 1..Len(edges) : (edges[a].label # "" /\ edges[a].label = edges[b].label) => a = b

\* the labels of the edges of g selected by a set of indices, in the order of g
RECURSIVE LabelsIn(_, _, _)
LabelsIn(g, selected, m) ==
  IF m >= Len(g.edges) THEN <<>>
  ELSE (IF m \in selected THEN <<At(g.edges, m).label>> ELSE <<>>) \o LabelsIn(g, selected, m + 1)

LabelsOf(edges) == [k \in 1..Len(edges) |-> edges[k].label]

\* C7 (compile failure conditions): createRuleFromGraph ends in a structural error
\* and returns no rule exactly when a subgraph "L" or "R" is missing, a node or an
\* edge is in neither subgraph, an edge is in both, or a non-empty edge label is
\* on two edges of one side; otherwise the rule has unique non-empty edge labels
\* on each side and every edge of G copied to exactly one side.
C7_CompileFailure ==
  pc \in {"error", "compiled"} =>
    /\ (pc = "error") <=> StructuralFault(graph)
    /\ pc = "error" => rule = NoRule /\ error # "none"
    /\ pc = "compiled" =>
         /\ UniqueLabels(rule.lhs.edges)
         /\ UniqueLabels(rule.rhs.edges)
         /\ Len(rule.lhs.edges) + Len(rule.rhs.edges) = Len(graph.edges)
         /\ LabelsOf(rule.lhs.edges) = LabelsIn(graph, Side(graph, "L").edges, 0)
         /\ LabelsOf(rule.rhs.edges) = LabelsIn(graph, Side(graph, "R").edges, 0)

\* a graph rejected for a repeated label on the right side, nothing else wrong
C7_Witness ==
  /\ pc = "error"
  /\ error = "label used twice in RHS"
  /\ LabelTwiceOn(graph, "R")
  /\ ~LabelTwiceOn(graph, "L")

Firsts(edge_mapping) == [k \in 1..Len(edge_mapping) |-> edge_mapping[k][1]]

\* C6 (compile ordering): the nodes and edges of L, R and K come out in the order
\* of G; the common edges, and the entries of both edge mappings of K, are in the
\* order in which their paired edges occur in G.
C6_CompileOrdering ==
  pc = "compiled" =>
    /\ LabelsOf(rule.lhs.edges) = LabelsIn(graph, Side(graph, "L").edges, 0)
    /\ LabelsOf(rule.rhs.edges) = LabelsIn(graph, Side(graph, "R").edges, 0)
    /\ StrictlyIncreasing(rule.common_to_lhs.node_mapping)
    /\ StrictlyIncreasing(rule.common_to_rhs.node_mapping)
    /\ StrictlyIncreasing(Firsts(rule.common_to_lhs.edge_mapping))

----------------------------------------------------------------------------
(* The chain createRuleFromGraph, findMatches, applyRule (Spec) *)

\* the LHS has a node and every edge joins nodes of its own side
WellFormedRuleGraph(g) ==
  /\ Side(g, "L").nodes # {}
  /\ \A name \in {"L", "R"} :
       \A m \in Side(g, name).edges :
         {At(g.edges, m).head, At(g.edges, m).tail} \subseteq Side(g, name).nodes

RuleGraph ==
  /\ \E n \in 1..MaxRuleNodes, e \in 0..MaxRuleEdges :
       GraphIsAnnotated(n, e, NodeLabels, EdgeLabels, {{"L"}, {"R"}, {"L", "R"}},
                        {{"L"}, {"R"}}, {{"L", "R"}})
  /\ WellFormedRuleGraph(graph)

HostGraph ==
  \E n \in 0..MaxHostNodes, e \in 0..MaxHostEdges :
    target \in GraphsOfSize(n, e, NodeLabels, {""})

Init ==
  /\ RuleGraph
  /\ HostGraph
  /\ pattern = EmptyGraph
  /\ rule = NoRule
  /\ error = "none"
  /\ partial_matches = <<>>
  /\ matches = <<>>
  /\ lhs_to_target = EmptyMapping
  /\ result = EmptyGraph
  /\ pc = "compile"

\* findMatches(rule.lhs_, target)
CallFindMatches ==
  /\ pc = "compiled"
  /\ Len(rule.lhs.nodes) >= 1
  /\ pattern' = rule.lhs
  /\ matches' = findMatches(rule.lhs, target)
  /\ pc' = "matched"
  /\ UNCHANGED <<graph, target, rule, error, partial_matches, lhs_to_target, result>>

\* applyRule(rule, target, match) at one of the matches found
CallApplyRule ==
  /\ pc = "matched"
  /\ \E k \in 1..Len(matches) :
       /\ lhs_to_target' = matches[k]
       /\ result' = applyRule(rule, target, matches[k])
  /\ pc' = "applied"
  /\ UNCHANGED <<graph, target, pattern, rule, error, partial_matches, matches>>

Next ==
  \/ createRuleFromGraph
  \/ CallFindMatches
  \/ CallApplyRule

Spec == Init /\ [][Next]_vars

----------------------------------------------------------------------------
(* Properties of applyRule *)

\* the target nodes copied first: those no LHS node is mapped to
ContextCount == Len(target.nodes) - Cardinality(Range(lhs_to_target.node_mapping))

\* the RHS edges that no common edge is paired with, in RHS order
RECURSIVE FreshEdges(_, _)
FreshEdges(r, m) ==
  IF m >= Len(r.rhs.edges) THEN <<>>
  ELSE (IF m \in Flatten(r.common_to_rhs.edge_mapping) THEN <<>> ELSE <<m>>)
         \o FreshEdges(r, m + 1)

\* where RHS node v must be in the result: at the place of the preserved target
\* node when v is the image of common node k, at some valid place otherwise
EndpointGlued(v, index) ==
  /\ index \in Indices(result.nodes)
  /\ \A k \in Indices(rule.common.nodes) :
       At(rule.common_to_rhs.node_mapping, k) = v =>
         /\ index = ContextCount + k
         /\ At(result.nodes, index) =
              At(target.nodes, At(lhs_to_target.node_mapping,
                                  At(rule.common_to_lhs.node_mapping, k)))

\* C1 (fresh RHS edges are glued): every RHS edge outside the image of the common
\* edges is the tail part of the result's edges, with head and tail valid result
\* nodes; an endpoint that is the image of common node k is the result index at
\* which the preserved target node of k was appended.
C1_FreshEdgesGlued ==
  pc = "applied" =>
    LET fresh == FreshEdges(rule, 0)
        base == Len(result.edges) - Len(fresh)
    IN /\ base >= 0
       /\ \A q \in 1..Len(fresh) :
            /\ EndpointGlued(At(rule.rhs.edges, fresh[q]).head, result.edges[base + q].head)
            /\ EndpointGlued(At(rule.rhs.edges, fresh[q]).tail, result.edges[base + q].tail)

\* L = R = K: every node on both sides, every LHS edge paired with an equal RHS edge
IdentityRule(r) ==
  /\ Len(r.lhs.nodes) = Len(r.common.nodes)
  /\ Len(r.rhs.nodes) = Len(r.common.nodes)
  /\ Len(r.lhs.edges) = Len(r.common.edges)
  /\ Len(r.rhs.edges) = Len(r.common.edges)
  /\ \A k \in 1..Len(r.common.edges) :
       At(r.lhs.edges, r.common_to_lhs.edge_mapping[k][1])
         = At(r.rhs.edges, r.common_to_rhs.edge_mapping[k][1])

EdgeCount(g, h, t) ==
  Cardinality({m \in 1..Len(g.edges) : g.edges[m].head = h /\ g.edges[m].tail = t})

\* a bijection of the nodes that keeps labels and the number of edges between
\* every two nodes
Isomorphic(g1, g2) ==
  /\ Len(g1.nodes) = Len(g2.nodes)
  /\ Len(g1.edges) = Len(g2.edges)
  /\ \E f \in Perms(Indices(g1.nodes)) :
       /\ \A a \in Indices(g1.nodes) : At(g1.nodes, a) = At(g2.nodes, At(f, a))
       /\ \A a, b \in Indices(g1.nodes) :
            EdgeCount(g1, a, b) = EdgeCount(g2, At(f, a), At(f, b))

\* C4 (apply conservation): with a rule that has L = R = K, applying it at any
\* match found, the non-injective ones included, gives a graph isomorphic to the
\* target: as many nodes and edges, and a bijection of nodes that keeps labels
\* and edge endpoints with multiplicity.
C4_ApplyConservation ==
  (pc = "applied" /\ IdentityRule(rule)) => Isomorphic(target, result)

\* the LHS nodes that are not the image of a common node
DeletedLhsNodes(r) == Indices(r.lhs.nodes) \ Range(r.common_to_lhs.node_mapping)

CreatedRhsNodes(r) == Indices(r.rhs.nodes) \ Range(r.common_to_rhs.node_mapping)

\* C5 (apply monotonicity): the result has |T.nodes| nodes, minus the target
\* nodes that are images of LHS nodes outside K, plus the RHS nodes outside K.
C5_ApplyMonotonicity ==
  pc = "applied" =>
    Len(result.nodes) =
      Len(target.nodes)
        - Cardinality({At(lhs_to_target.node_mapping, l) : l \in DeletedLhsNodes(rule)})
        + Cardinality(CreatedRhsNodes(rule))

\* C10 (no dangling edges): every edge of the result has its head and its tail
\* among the result's node indices, never the "absent" value.
C10_NoDanglingEdges ==
  pc = "applied" =>
    \A m \in 1..Len(result.edges) :
      /\ result.edges[m].head \in Indices(result.nodes)
      /\ result.edges[m].tail \in Indices(result.nodes)

====
